---- MODULE Spec2Model ----
(***************************************************************************)
(* PALS (Pre-Allocated Length Serialization), src/lib.rs.                  *)
(*                                                                         *)
(* The four public functions serialize_le, serialize_be, deserialize_le    *)
(* and deserialize_be are pure; they are modelled as operators that follow *)
(* the code statement by statement (loops as RECURSIVE operators).  The    *)
(* state machine is a caller that runs one scenario: it encodes a segment  *)
(* list and decodes the encoded buffer (as it is, followed by trailing     *)
(* bytes, or with its last byte removed), or it decodes a raw buffer that  *)
(* no encoder produced.  The functions keep no state between calls, so     *)
(* scenarios do not interact and one scenario per behaviour covers them.   *)
(*                                                                         *)
(* A usize/u64 of deserialize_be is kept as its eight big-endian bytes, so *)
(* that additions have the 64-bit width of the target and overflow is      *)
(* observable.  An overflowing addition panics when the crate is compiled  *)
(* with overflow checks (debug profile) and wraps otherwise (release       *)
(* profile); the profile is an input of the deserialize_be step.           *)
(***************************************************************************)
EXTENDS Integers, Sequences, FiniteSets, TLC

\* ------------------------------------------------------------------ bounds
MaxSegs == 2
MaxSegLen == 2
MaxRawLen == 3
MaxFields == 3
MaxTail == 1

\* ------------------------------------------------------- program constants
U8_MAX == 255
FIELD_BYTES == 8

\* ------------------------------------------------------------ result type
\* Result<_, String>, plus the abort of the call (a Rust panic).
Ok(v) == [tag |-> "Ok", val |-> v, msg |-> ""]
Err(m) == [tag |-> "Err", val |-> <<>>, msg |-> m]
Panic(m) == [tag |-> "Panic", val |-> <<>>, msg |-> m]
NoCall == [tag |-> "None", val |-> <<>>, msg |-> ""]

EmptyInput == "Input data is empty."
SegmentTooLarge == "Input data contains a slice that is too large to be serialized."
SliceTooLarge == "Input data contains a slice that is too large to be deserialized."
MissingTerminator == "Input data is missing the terminating null byte."
IncompleteData == "Input data is incomplete."

\* ---------------------------------------------------------------- helpers
\* data[a..b] of Rust (0-based, end exclusive), for 0 <= a <= b <= Len(data).
Slice(data, a, b) == SubSeq(data, a + 1, b)

RECURSIVE Concat(_)
\* The bytes of all slices in order (the second loop of both encoders).
Concat(data) == IF data = <<>> THEN <<>> ELSE Head(data) \o Concat(Tail(data))

RECURSIVE SumSeq(_)
SumSeq(s) == IF s = <<>> THEN 0 ELSE Head(s) + SumSeq(Tail(s))

\* ------------------------------------------------------------ serialize_le
\* (1 + i.len()) as u8: the cast keeps the low eight bits.
AsU8(n) == n % (U8_MAX + 1)

RECURSIVE LeTableLimitTooLow(_)
\* LeTable with the limit one too low (>= for >).
LeTableLimitTooLow(data) ==
    IF data = <<>> THEN Ok(<<>>)
    ELSE IF Len(Head(data)) >= U8_MAX - 1 THEN Err(SegmentTooLarge)
    ELSE LET rest == LeTableLimitTooLow(Tail(data))
         IN  IF rest.tag = "Err" THEN rest
             ELSE Ok(<<AsU8(1 + Len(Head(data)))>> \o rest.val)

RECURSIVE LeTableLimitTooHigh(_)
\* LeTable with the limit one too high (u8::MAX for u8::MAX - 1).
LeTableLimitTooHigh(data) ==
    IF data = <<>> THEN Ok(<<>>)
    ELSE IF Len(Head(data)) > U8_MAX THEN Err(SegmentTooLarge)
    ELSE LET rest == LeTableLimitTooHigh(Tail(data))
         IN  IF rest.tag = "Err" THEN rest
             ELSE Ok(<<AsU8(1 + Len(Head(data)))>> \o rest.val)

RECURSIVE LeTable(_)
\* The first loop of serialize_le: Err on the first slice that is too long,
\* else the one-byte length fields.
LeTable(data) ==
    IF data = <<>> THEN Ok(<<>>)
    ELSE IF Len(Head(data)) > U8_MAX - 1 THEN Err(SegmentTooLarge)
    ELSE LET rest == LeTable(Tail(data))
         IN  IF rest.tag = "Err" THEN rest
             ELSE Ok(<<AsU8(1 + Len(Head(data)))>> \o rest.val)

serialize_le(data) ==
    IF data = <<>> THEN Err(EmptyInput)
    ELSE LET table == LeTable(data)
         IN  IF table.tag = "Err" THEN table
             ELSE Ok(table.val \o <<0>> \o Concat(data))

\* ---------------------------------------------------------- deserialize_le
RECURSIVE LeScanNoUnshift(_, _, _)
\* LeScan that keeps the shifted length (len for len - 1).
LeScanNoUnshift(data, i, lengths) ==
    IF i < Len(data) /\ data[i + 1] # 0
    THEN LET len == data[i + 1]
         IN  IF len > Len(data) - i - 1 THEN Err(SliceTooLarge)
             ELSE LeScanNoUnshift(data, i + 1, Append(lengths, len))
    ELSE Ok([i |-> i, lengths |-> lengths])

RECURSIVE LeScan(_, _, _)
\* The while loop of deserialize_le; i is the 0-based index.
LeScan(data, i, lengths) ==
    IF i < Len(data) /\ data[i + 1] # 0
    THEN LET len == data[i + 1]
         IN  IF len > Len(data) - i - 1 THEN Err(SliceTooLarge)
             ELSE LeScan(data, i + 1, Append(lengths, len - 1))
    ELSE Ok([i |-> i, lengths |-> lengths])

RECURSIVE LeSlices(_, _, _)
\* The for loop of deserialize_le; data[i..(i + j)] aborts when the range
\* leaves the buffer.
LeSlices(data, i, lengths) ==
    IF lengths = <<>> THEN Ok(<<>>)
    ELSE LET j == Head(lengths)
         IN  IF i + j > Len(data) THEN Panic("slice index out of range")
             ELSE LET rest == LeSlices(data, i + j, Tail(lengths))
                  IN  IF rest.tag = "Panic" THEN rest
                      ELSE Ok(<<Slice(data, i, i + j)>> \o rest.val)

\* deserialize_le that rejects bytes after the last slice (# for >).
deserialize_le_strict(data) ==
    LET scan == LeScan(data, 0, <<>>)
    IN  IF scan.tag = "Err" THEN scan
        ELSE IF scan.val.i = Len(data) THEN Err(MissingTerminator)
        ELSE LET i == scan.val.i + 1
                 lengths == scan.val.lengths
             IN  IF i + SumSeq(lengths) # Len(data) THEN Err(IncompleteData)
                 ELSE LeSlices(data, i, lengths)

deserialize_le(data) ==
    LET scan == LeScan(data, 0, <<>>)
    IN  IF scan.tag = "Err" THEN scan
        ELSE IF scan.val.i = Len(data) THEN Err(MissingTerminator)
        ELSE LET i == scan.val.i + 1
                 lengths == scan.val.lengths
             IN  IF i + SumSeq(lengths) > Len(data) THEN Err(IncompleteData)
                 ELSE LeSlices(data, i, lengths)

\* ------------------------------------------------------- 64-bit arithmetic
\* A u64 (and a usize of the 64-bit target) is its FIELD_BYTES big-endian
\* bytes, most significant first.
Positions == 1..FIELD_BYTES

\* n.to_be_bytes() for the n the model builds (n < 2^31): the low four bytes
\* carry the value, the high bytes are zero.
to_be_bytes(n) ==
    [k \in Positions |->
        IF FIELD_BYTES - k > 3 THEN 0
        ELSE (n \div (256 ^ (FIELD_BYTES - k))) % 256]

U64_ZERO == [k \in Positions |-> 0]
U64_MAX == [k \in Positions |-> U8_MAX]
U64_MAX_MINUS_1 == [k \in Positions |-> IF k = FIELD_BYTES THEN U8_MAX - 1 ELSE U8_MAX]

RECURSIVE CarryInto(_, _, _)
\* The carry that the bytes below position k pass into position k.
CarryInto(a, b, k) ==
    IF k = FIELD_BYTES THEN 0
    ELSE (a[k + 1] + b[k + 1] + CarryInto(a, b, k + 1)) \div 256

\* a + b modulo 2^64, and whether the true sum left the 64 bits.
WrappingAdd(a, b) == [k \in Positions |-> (a[k] + b[k] + CarryInto(a, b, k)) % 256]
AddOverflows(a, b) == CarryInto(a, b, 0) = 1

RECURSIVE BorrowFrom(_, _)
\* The borrow that a - 1 takes from position k.
BorrowFrom(a, k) ==
    IF k = FIELD_BYTES THEN 1
    ELSE IF a[k + 1] - BorrowFrom(a, k + 1) < 0 THEN 1 ELSE 0

\* a - 1 for a # 0 (the loop of deserialize_be reads no zero field).
MinusOne(a) == [k \in Positions |-> (a[k] - BorrowFrom(a, k)) % 256]

RECURSIVE GtFrom(_, _, _)
GtFrom(a, b, k) ==
    IF k > FIELD_BYTES THEN FALSE
    ELSE IF a[k] # b[k] THEN a[k] > b[k]
    ELSE GtFrom(a, b, k + 1)

\* a > b on u64.
U64Gt(a, b) == GtFrom(a, b, 1)

\* The number a u64 holds, for the values that index the buffer (< 2^31).
ToNat(a) ==
    a[FIELD_BYTES] + 256 * a[FIELD_BYTES - 1] + 65536 * a[FIELD_BYTES - 2]
        + 16777216 * a[FIELD_BYTES - 3]

\* usize addition under the build profile: a panic with overflow checks
\* (debug), a wrapped sum without them (release).
CheckedAdd(a, b, overflowChecks) ==
    IF AddOverflows(a, b) /\ overflowChecks
    THEN Panic("attempt to add with overflow")
    ELSE Ok(WrappingAdd(a, b))

\* ------------------------------------------------------------ serialize_be
RECURSIVE BeTableNoShift(_)
\* BeTable that writes the length itself (i.len() for 1 + i.len()).
BeTableNoShift(data) ==
    IF data = <<>> THEN <<>>
    ELSE to_be_bytes(Len(Head(data))) \o BeTableNoShift(Tail(data))

RECURSIVE BeTable(_)
\* The first loop of serialize_be: the eight-byte big-endian length fields.
BeTable(data) ==
    IF data = <<>> THEN <<>>
    ELSE to_be_bytes(1 + Len(Head(data))) \o BeTable(Tail(data))

\* serialize_be without the test for an empty list.
serialize_be_no_empty_test(data) == Ok(BeTable(data) \o U64_ZERO \o Concat(data))

serialize_be(data) ==
    IF data = <<>> THEN Err(EmptyInput)
    ELSE Ok(BeTable(data) \o U64_ZERO \o Concat(data))

\* ---------------------------------------------------------- deserialize_be
RECURSIVE BeScan(_, _, _)
\* The while loop of deserialize_be; i is the 0-based index.
BeScan(data, i, lengths) ==
    IF i + FIELD_BYTES <= Len(data) /\ Slice(data, i, i + FIELD_BYTES) # U64_ZERO
    THEN LET len == MinusOne(Slice(data, i, i + FIELD_BYTES))
         IN  IF U64Gt(len, U64_MAX_MINUS_1) THEN Err(SliceTooLarge)
             ELSE BeScan(data, i + FIELD_BYTES, Append(lengths, len))
    ELSE Ok([i |-> i, lengths |-> lengths])

RECURSIVE BeSum(_, _, _)
\* lengths.iter().sum::<usize>(), folded from acc.
BeSum(lengths, acc, overflowChecks) ==
    IF lengths = <<>> THEN Ok(acc)
    ELSE LET next == CheckedAdd(acc, Head(lengths), overflowChecks)
         IN  IF next.tag = "Panic" THEN next
             ELSE BeSum(Tail(lengths), next.val, overflowChecks)

RECURSIVE BeSlices(_, _, _, _)
\* The for loop of deserialize_be; i is a usize.  data[i..(i + j)] aborts
\* when the range starts after its end or ends after the buffer.
BeSlices(data, i, lengths, overflowChecks) ==
    IF lengths = <<>> THEN Ok(<<>>)
    ELSE LET end == CheckedAdd(i, Head(lengths), overflowChecks)
         IN  IF end.tag = "Panic" THEN end
             ELSE IF U64Gt(i, end.val) THEN Panic("slice index starts after its end")
             ELSE IF U64Gt(end.val, to_be_bytes(Len(data)))
                  THEN Panic("slice index out of range")
             ELSE LET rest == BeSlices(data, end.val, Tail(lengths), overflowChecks)
                  IN  IF rest.tag = "Panic" THEN rest
                      ELSE Ok(<<Slice(data, ToNat(i), ToNat(end.val))>> \o rest.val)

deserialize_be(data, overflowChecks) ==
    LET scan == BeScan(data, 0, <<>>)
    IN  IF scan.tag = "Err" THEN scan
        ELSE LET i == to_be_bytes(scan.val.i + FIELD_BYTES)
                 lengths == scan.val.lengths
                 sum == BeSum(lengths, U64_ZERO, overflowChecks)
             IN  IF sum.tag = "Panic" THEN sum
                 ELSE LET need == CheckedAdd(i, sum.val, overflowChecks)
                      IN  IF need.tag = "Panic" THEN need
                          ELSE IF U64Gt(need.val, to_be_bytes(Len(data)))
                               THEN Err(IncompleteData)
                          ELSE BeSlices(data, i, lengths, overflowChecks)

\* ------------------------------------------------------------- the caller
VARIABLES
    segs,   \* the segment list given to the last encode call
    encv,   \* the encoder called: "le", "be", or "none"
    enc,    \* what that call returned
    buf,    \* the buffer given to the last decode call
    decv,   \* the decoder called: "le", "be", or "none"
    dec     \* what that call returned

vars == <<segs, encv, enc, buf, decv, dec>>

\* Inputs of the encoders: lists of up to MaxSegs slices; a slice is short
\* (up to MaxSegLen bytes) or sits at the one-byte limit of serialize_le.
SegBytes == {0, 7}
Fill(n) == [k \in 1..n |-> 7]
ShortSegs == UNION {[1..n -> SegBytes] : n \in 0..MaxSegLen}
LongSegs == {Fill(U8_MAX - 1), Fill(U8_MAX)}
SegLists == UNION {[1..n -> ShortSegs \cup LongSegs] : n \in 0..MaxSegs}

\* Inputs of the decoders that come from an encoded buffer b.
Tails == UNION {[1..n -> SegBytes] : n \in 0..MaxTail}
Truncated(b) == SubSeq(b, 1, Len(b) - 1)
FromEncoded(b) == {Truncated(b)} \cup {b \o t : t \in Tails}

\* Inputs of the decoders that no encoder produced.
RawBytes == {0, 1, 2, U8_MAX}
RawLe == UNION {[1..n -> RawBytes] : n \in 0..MaxRawLen}
RawFields == {U64_ZERO, to_be_bytes(1), to_be_bytes(3), U64_MAX}
RawTables == UNION {[1..n -> RawFields] : n \in 0..MaxFields}
RawBe == {Concat(t) \o tail : t \in RawTables, tail \in Tails}

Init ==
    /\ segs = <<>>
    /\ encv = "none"
    /\ enc = NoCall
    /\ buf = <<>>
    /\ decv = "none"
    /\ dec = NoCall

\* No call was made yet.
Fresh == encv = "none" /\ decv = "none"

\* A call of serialize_le.
SerializeLe ==
    /\ Fresh
    /\ \E data \in SegLists :
        /\ segs' = data
        /\ encv' = "le"
        /\ enc' = serialize_le(data)
        /\ buf' = <<>>
        /\ decv' = "none"
        /\ dec' = NoCall

\* A call of serialize_be.
SerializeBe ==
    /\ Fresh
    /\ \E data \in SegLists :
        /\ segs' = data
        /\ encv' = "be"
        /\ enc' = serialize_be(data)
        /\ buf' = <<>>
        /\ decv' = "none"
        /\ dec' = NoCall

\* deserialize_le on what serialize_le returned: the buffer as it is, with
\* trailing bytes, or without its last byte.
DeserializeLeEncoded ==
    /\ encv = "le"
    /\ decv = "none"
    /\ enc.tag = "Ok"
    /\ \E data \in FromEncoded(enc.val) :
        /\ buf' = data
        /\ decv' = "le"
        /\ dec' = deserialize_le(data)
    /\ UNCHANGED <<segs, encv, enc>>

\* deserialize_be on what serialize_be returned, under either build profile.
DeserializeBeEncoded ==
    /\ encv = "be"
    /\ decv = "none"
    /\ enc.tag = "Ok"
    /\ \E data \in FromEncoded(enc.val), overflowChecks \in BOOLEAN :
        /\ buf' = data
        /\ decv' = "be"
        /\ dec' = deserialize_be(data, overflowChecks)
    /\ UNCHANGED <<segs, encv, enc>>

\* deserialize_le on a buffer of the caller's own.
DeserializeLeRaw ==
    /\ Fresh
    /\ \E data \in RawLe :
        /\ buf' = data
        /\ decv' = "le"
        /\ dec' = deserialize_le(data)
    /\ UNCHANGED <<segs, encv, enc>>

\* deserialize_be on a buffer of the caller's own, under either build profile.
DeserializeBeRaw ==
    /\ Fresh
    /\ \E data \in RawBe, overflowChecks \in BOOLEAN :
        /\ buf' = data
        /\ decv' = "be"
        /\ dec' = deserialize_be(data, overflowChecks)
    /\ UNCHANGED <<segs, encv, enc>>

Next ==
    \/ SerializeLe
    \/ SerializeBe
    \/ DeserializeLeEncoded
    \/ DeserializeBeEncoded
    \/ DeserializeLeRaw
    \/ DeserializeBeRaw

Spec == Init /\ [][Next]_vars

\* ------------------------------------------------------------- properties
\* The decode call was made on the buffer serialize returned, followed by t.
DecodedEncodedPlus(t) == enc.tag = "Ok" /\ decv # "none" /\ buf = enc.val \o t

\* The width of a length field of the encoder called.
FieldWidth == IF encv = "le" THEN 1 ELSE FIELD_BYTES

\* The number a length field holds: the byte itself (narrow), or the
\* big-endian value of the eight bytes (wide; -1 when it exceeds 2^31 - 1).
FieldValue(f) ==
    IF Len(f) = 1 THEN f[1]
    ELSE IF \E k \in 1..4 : f[k] # 0 THEN -1
    ELSE IF f[5] > 127 THEN -1
    ELSE ((f[5] * 256 + f[6]) * 256 + f[7]) * 256 + f[8]

\* The i-th length field (1-based) of buffer b for fields of width w.
FieldAt(b, i, w) == SubSeq(b, (i - 1) * w + 1, i * w)

\* C1: decoding the buffer that encoding returned gives back the same
\* segment list, in the same order, for both variants.
RoundTrip == DecodedEncodedPlus(<<>>) => dec = Ok(segs)

RoundTripWitness ==
    /\ DecodedEncodedPlus(<<>>)
    /\ dec = Ok(segs)
    /\ Len(segs) = MaxSegs
    /\ segs[1] = <<>>
    /\ Len(segs[2]) > 0

\* C2: a successful encode returns n length fields holding 1 + len(s_i),
\* one all-zero terminator field, then the concatenated segments; so no
\* length field is 0 and the buffer has (n + 1) * width + sum len(s_i) bytes.
WireLayout ==
    enc.tag = "Ok" =>
        LET n == Len(segs)
            w == FieldWidth
        IN  /\ Len(enc.val) = (n + 1) * w + SumSeq([i \in 1..n |-> Len(segs[i])])
            /\ \A i \in 1..n :
                /\ FieldValue(FieldAt(enc.val, i, w)) = 1 + Len(segs[i])
                /\ FieldValue(FieldAt(enc.val, i, w)) # 0
            /\ \A k \in (n * w + 1)..((n + 1) * w) : enc.val[k] = 0
            /\ SubSeq(enc.val, (n + 1) * w + 1, Len(enc.val)) = Concat(segs)

WireLayoutWitness ==
    /\ enc.tag = "Ok"
    /\ encv = "be"
    /\ Len(segs) = MaxSegs
    /\ Len(segs[1]) = U8_MAX
    /\ segs[2] = <<>>

\* C3 (as claimed): decoding a valid encoded buffer without its last byte
\* fails with IncompleteData when the byte was payload, and with
\* MissingTerminator (the code has no TruncatedTable) when all segments are
\* empty and the byte was part of the terminator.
TruncatedDecode ==
    (enc.tag = "Ok" /\ decv # "none" /\ buf = Truncated(enc.val)) =>
        /\ dec.tag = "Err"
        /\ dec.msg = (IF Concat(segs) # <<>> THEN IncompleteData ELSE MissingTerminator)

\* C4 (as claimed): decoding a buffer of one or more non-zero length fields
\* and nothing else fails with MissingTerminator.
OnlyNonZeroFields ==
    LET w == IF decv = "le" THEN 1 ELSE FIELD_BYTES
    IN  /\ buf # <<>>
        /\ Len(buf) % w = 0
        /\ \A i \in 1..(Len(buf) \div w) : \E k \in 1..w : FieldAt(buf, i, w)[k] # 0

TerminatorDiscipline ==
    (decv # "none" /\ encv = "none" /\ OnlyNonZeroFields) => dec = Err(MissingTerminator)

\* C5 (as claimed): decode returns a segment list or an error on every
\* buffer; no call aborts.
DecodeTotal == dec.tag # "Panic"

\* Some segment of the encoded list has exactly n bytes, none has more.
LongestIs(n) ==
    /\ \E i \in 1..Len(segs) : Len(segs[i]) = n
    /\ \A i \in 1..Len(segs) : Len(segs[i]) <= n

\* C6 (as claimed): a segment of capacity - 1 = 255 bytes is accepted by
\* serialize_le.
CapacityMinusOneAccepted ==
    (encv = "le" /\ LongestIs(U8_MAX)) => enc.tag = "Ok"

\* C6 (amended): a segment of capacity - 2 = 254 bytes is accepted by
\* serialize_le and round-trips through deserialize_le unchanged; a segment
\* of capacity - 1 = 255 bytes is rejected with SegmentTooLarge.
CapacityBoundary ==
    /\ (encv = "le" /\ LongestIs(U8_MAX - 1)) =>
            /\ enc.tag = "Ok"
            /\ DecodedEncodedPlus(<<>>) => dec = Ok(segs)
    /\ (encv = "le" /\ LongestIs(U8_MAX)) => enc = Err(SegmentTooLarge)

CapacityBoundaryWitness ==
    /\ encv = "le"
    /\ LongestIs(U8_MAX - 1)
    /\ DecodedEncodedPlus(<<>>)
    /\ dec = Ok(segs)

\* C7: on a non-empty list serialize_le returns SegmentTooLarge, and no
\* buffer, exactly when some segment is longer than 254 bytes; otherwise it
\* succeeds.
NarrowSizeLimit ==
    (encv = "le" /\ segs # <<>>) =>
        IF \E i \in 1..Len(segs) : Len(segs[i]) > 254
        THEN enc = Err(SegmentTooLarge)
        ELSE enc.tag = "Ok"

NarrowSizeLimitWitness ==
    /\ encv = "le"
    /\ Len(segs) = MaxSegs
    /\ Len(segs[1]) <= 254
    /\ Len(segs[MaxSegs]) > 254
    /\ enc = Err(SegmentTooLarge)

\* C8: both encoders return EmptyInput, and no buffer, on a list of zero
\* segments, and never on a list of one or more segments.
EmptyInputRejected ==
    encv # "none" => (segs = <<>> <=> enc = Err(EmptyInput))

EmptyInputRejectedWitness ==
    /\ encv = "be"
    /\ segs = <<>>
    /\ enc = Err(EmptyInput)

\* C9: decoding a valid encoded buffer followed by any trailing bytes
\* succeeds and returns the encoded segment list, for both variants.
TrailingDataTolerated ==
    \A t \in Tails : DecodedEncodedPlus(t) => dec = Ok(segs)

TrailingDataToleratedWitness ==
    /\ \E t \in Tails : t # <<>> /\ t[1] # 0 /\ DecodedEncodedPlus(t)
    /\ Concat(segs) # <<>>
    /\ dec = Ok(segs)

\* C10 (as claimed): a successful decode returns at least one segment.
DecodeNonEmpty == dec.tag = "Ok" => dec.val # <<>>

====
